---- MODULE Spec2Model ----
(***************************************************************************)
(* StackOverflowAnalyzer (src/src/air_data/stackoverflow_analyzer.py):     *)
(* construction of the star schema from the raw respondent and schema      *)
(* tables, and the query operations over it.                               *)
(*                                                                         *)
(* Text values are sequences of one-character strings, so that splitting,  *)
(* pattern matching and case folding are computed character by character.  *)
(* A table cell is <<>> (SQL NULL) or <<s>> (the VARCHAR s).               *)
(***************************************************************************)
EXTENDS Integers, Sequences, FiniteSets, TLC

VARIABLES so_schema, so_data, phase, conn, dim_questions, dim_respondents,
          fact_responses_sc, fact_responses_mc, call, result

vars == <<so_schema, so_data, phase, conn, dim_questions, dim_respondents,
          fact_responses_sc, fact_responses_mc, call, result>>

(* Largest number of raw respondent rows. *)
MaxRows == 3

----------------------------------------------------------------------------
(* Text helpers *)

Range(s) == {s[i] : i \in 1..Len(s)}

NULL == <<>>

Val(s) == <<s>>

UpperLetters == <<"A","B","C","D","E","F","G","H","I","J","K","L","M",
                  "N","O","P","Q","R","S","T","U","V","W","X","Y","Z">>

LowerLetters == <<"a","b","c","d","e","f","g","h","i","j","k","l","m",
                  "n","o","p","q","r","s","t","u","v","w","x","y","z">>

LowerChar(c) ==
    IF \E i \in 1..26 : UpperLetters[i] = c
    THEN LowerLetters[CHOOSE i \in 1..26 : UpperLetters[i] = c]
    ELSE c

Lower(s) == [i \in 1..Len(s) |-> LowerChar(s[i])]

IsSubstring(t, s) ==
    \E i \in 0..(Len(s) - Len(t)) : \A j \in 1..Len(t) : s[i + j] = t[j]

(* SQL LIKE: '%' matches any run of characters, '_' any one character. *)
RECURSIVE Like(_, _)
Like(s, p) ==
    IF p = <<>> THEN s = <<>>
    ELSE IF Head(p) = "%"
         THEN Like(s, Tail(p)) \/ (s # <<>> /\ Like(Tail(s), p))
         ELSE /\ s # <<>>
              /\ (Head(p) = "_" \/ Head(p) = Head(s))
              /\ Like(Tail(s), Tail(p))

(* ILIKE folds the case of both sides. *)
ILike(s, p) == Like(Lower(s), Lower(p))

(* string_split(s, ';'): the pieces between the separators, untrimmed,   *)
(* empty pieces kept.                                                    *)
RECURSIVE SplitFrom(_, _, _)
SplitFrom(s, i, cur) ==
    IF i > Len(s) THEN <<cur>>
    ELSE IF s[i] = ";" THEN <<cur>> \o SplitFrom(s, i + 1, <<>>)
         ELSE SplitFrom(s, i + 1, Append(cur, s[i]))

string_split(s) == SplitFrom(s, 1, <<>>)

(* A value interpolated between single quotes in a statement: a quote in *)
(* the value that is not doubled ends the literal early.                 *)
RECURSIVE QuotesBalanced(_)
QuotesBalanced(s) ==
    IF s = <<>> THEN TRUE
    ELSE IF Head(s) # "'" THEN QuotesBalanced(Tail(s))
         ELSE /\ Len(s) >= 2
              /\ s[2] = "'"
              /\ QuotesBalanced(Tail(Tail(s)))

RECURSIVE Unescape(_)
Unescape(s) ==
    IF s = <<>> THEN <<>>
    ELSE IF Head(s) = "'" /\ Len(s) >= 2
         THEN <<"'">> \o Unescape(Tail(Tail(s)))
         ELSE <<Head(s)>> \o Unescape(Tail(s))

----------------------------------------------------------------------------
(* Names and values of the bounded inputs *)

NA == <<"N","A">>

RemoteWork == <<"R","e","m","o","t","e","W","o","r","k">>
Lang == <<"L","a","n","g">>
Why == <<"W","h","y">>
OrgSize == <<"O","r","g","S","i","z","e">>
Country == <<"C","o","u","n","t","r","y">>
Unknown == <<"N","o","n","e">>
Malformed == <<"D","'","T">>
(* x'; DELETE FROM fact_responses_sc; -- *)
Stacked ==
    <<"x","'",";"," ","D","E","L","E","T","E"," ","F","R","O","M"," ","f",
      "a","c","t","_","r","e","s","p","o","n","s","e","s","_","s","c",";",
      " ","-","-">>

Remote == <<"R","e","m","o","t","e">>
Hybrid == <<"H","y","b","r","i","d">>
Go == <<"G","o">>
Py == <<"P","y">>

TextRemoteWork == <<"W","o","r","k"," ","s","i","t","e","?">>
TextLang == <<"T","o","o","l","s","?">>
TextWhy == <<"W","h","y","?">>
TextOrgSize == <<"H","e","a","d","s","?">>
TextCountry == <<"W","h","e","r","e","?">>

SchemaRow(c, t, ty) == [column |-> c, question_text |-> t, type |-> ty]

(* Schema sources: rows not in column order, a type outside SC/MC, an SC *)
(* question without a data column, a demographic one without a column.   *)
Schemas ==
    { << SchemaRow(RemoteWork, TextRemoteWork, "SC"),
         SchemaRow(Lang, TextLang, "MC"),
         SchemaRow(Why, TextWhy, "TE") >>,
      << SchemaRow(OrgSize, TextOrgSize, "SC"),
         SchemaRow(Lang, TextLang, "MC"),
         SchemaRow(RemoteWork, TextRemoteWork, "SC") >>,
      << SchemaRow(RemoteWork, TextRemoteWork, "SC"),
         SchemaRow(Country, TextCountry, "SC"),
         SchemaRow(Lang, TextLang, "MC") >>,
      << SchemaRow(Why, TextWhy, "TE"),
         SchemaRow(Country, TextCountry, "SC"),
         SchemaRow(Lang, TextLang, "MC") >> }

(* The columns of the raw respondent table. *)
data_columns == {RemoteWork, Lang}

RawRow(sc, mc) == [c \in data_columns |-> IF c = RemoteWork THEN sc ELSE mc]

(* Raw respondent rows: every kind of SC cell (answer, NULL, empty, NA)  *)
(* and of MC cell (NULL, empty, one piece, pieces with NA, with a blank). *)
RawRows ==
    { RawRow(Val(Remote), Val(Py \o <<";">> \o Go \o <<";">> \o NA)),
      RawRow(Val(Hybrid), NULL),
      RawRow(Val(<<>>), Val(Go)),
      RawRow(Val(NA), Val(Py \o <<";", " ">> \o Go)),
      RawRow(NULL, Val(<<>>)),
      RawRow(Val(Remote), Val(Go)) }

RawTables == UNION {[1..n -> RawRows] : n \in 0..MaxRows}

----------------------------------------------------------------------------
(* Ordering helpers *)

(* The characters in use, in code-point order. *)
Ascii == <<" ", "%", "'", ";", "?",
           "A","B","C","D","E","F","G","H","I","J","K","L","M",
           "N","O","P","Q","R","S","T","U","V","W","X","Y","Z", "_",
           "a","b","c","d","e","f","g","h","i","j","k","l","m",
           "n","o","p","q","r","s","t","u","v","w","x","y","z">>

Code(c) == CHOOSE i \in 1..Len(Ascii) : Ascii[i] = c

RECURSIVE StrLess(_, _)
StrLess(a, b) ==
    IF b = <<>> THEN FALSE
    ELSE IF a = <<>> THEN TRUE
    ELSE IF Head(a) = Head(b) THEN StrLess(Tail(a), Tail(b))
    ELSE Code(Head(a)) < Code(Head(b))

(* Every arrangement of the rows S in ascending order of the integer key *)
(* k[row]; rows with equal keys may come in any order (ORDER BY).        *)
RECURSIVE OrderedBy(_, _)
OrderedBy(S, k) ==
    IF S = {} THEN {<<>>}
    ELSE UNION { { <<x>> \o t : t \in OrderedBy(S \ {x}, k) } :
                    x \in {m \in S : \A y \in S : k[m] <= k[y]} }

RECURSIVE Flatten(_)
Flatten(ss) == IF ss = <<>> THEN <<>> ELSE Head(ss) \o Flatten(Tail(ss))

Count(seq, P(_)) == Cardinality({i \in 1..Len(seq) : P(seq[i])})

----------------------------------------------------------------------------
(* _create_star_schema *)

MainBranch == <<"M","a","i","n","B","r","a","n","c","h">>
Age == <<"A","g","e">>
EdLevel == <<"E","d","L","e","v","e","l">>
YearsCode == <<"Y","e","a","r","s","C","o","d","e">>
YearsCodePro == <<"Y","e","a","r","s","C","o","d","e","P","r","o">>
DevType == <<"D","e","v","T","y","p","e">>

DemographicNames ==
    {MainBranch, Age, RemoteWork, EdLevel, YearsCode, YearsCodePro, DevType, Country}

(* ROW_NUMBER() OVER () numbers the schema rows in the order they are read. *)
MakeDimQuestions(schema) ==
    [i \in 1..Len(schema) |->
        [question_id |-> i,
         column_name |-> schema[i].column,
         question_text |-> schema[i].question_text,
         type |-> schema[i].type]]

demographic_columns(dq) ==
    {dq[i].column_name : i \in {j \in 1..Len(dq) :
        dq[j].type = "SC" /\ dq[j].column_name \in DemographicNames}}

(* Selecting a demographic column the raw table lacks fails the statement. *)
DimRespondentsFails(dq) == ~(demographic_columns(dq) \subseteq data_columns)

(* MakeDimRespondents with SELECT DISTINCT: equal raw rows give one row. *)
MakeDimRespondents_Distinct(dq, data) ==
    LET first == {i \in 1..Len(data) : \A j \in 1..(i - 1) : data[j] # data[i]}
        Nth(k) == CHOOSE i \in first : Cardinality({j \in first : j <= i}) = k
    IN  [k \in 1..Cardinality(first) |->
            [respondent_id |-> k,
             demographics |-> [c \in demographic_columns(dq) |-> data[Nth(k)][c]]]]

MakeDimRespondents(dq, data) ==
    [i \in 1..Len(data) |->
        [respondent_id |-> i,
         demographics |-> [c \in demographic_columns(dq) |-> data[i][c]]]]

ScResponse(cell) ==
    IF cell = NULL THEN NA
    ELSE IF cell[1] = <<>> THEN NA
    ELSE cell[1]

(* One INSERT per SC question with a data column: a row per raw row. *)
ScInsert(q, data) ==
    IF q.type = "SC" /\ q.column_name \in data_columns
    THEN [i \in 1..Len(data) |->
             [respondent_id |-> i,
              question_id |-> q.question_id,
              response |-> ScResponse(data[i][q.column_name])]]
    ELSE <<>>

MakeFactSc(dq, data) == Flatten([i \in 1..Len(dq) |-> ScInsert(dq[i], data)])

McAnswered(cell) == cell # NULL /\ cell[1] # <<>>

(* mc_data: the WHERE clause filters before ROW_NUMBER() numbers the rows. *)
McData(q, data) ==
    LET kept == SelectSeq([i \in 1..Len(data) |-> data[i][q.column_name]], McAnswered)
    IN  [n \in 1..Len(kept) |->
            [respondent_id |-> n,
             question_id |-> q.question_id,
             response_combined |-> kept[n][1]]]

Unnest(r) ==
    LET pieces == string_split(r.response_combined)
    IN  [k \in 1..Len(pieces) |->
            [respondent_id |-> r.respondent_id,
             question_id |-> r.question_id,
             response |-> pieces[k]]]

McInsert(q, data) ==
    IF q.type = "MC" /\ q.column_name \in data_columns
    THEN LET md == McData(q, data)
         IN  Flatten([n \in 1..Len(md) |-> Unnest(md[n])])
    ELSE <<>>

MakeFactMc(dq, data) == Flatten([i \in 1..Len(dq) |-> McInsert(dq[i], data)])

NoCall == [op |-> "none", column |-> <<>>, option |-> <<>>, search_term |-> <<>>,
           sort_by |-> ""]

NoResult == [status |-> "none", rows |-> <<>>]

Init ==
    /\ so_schema \in Schemas
    /\ so_data \in RawTables
    /\ phase = "unbuilt"
    /\ conn = "none"
    /\ dim_questions = <<>>
    /\ dim_respondents = <<>>
    /\ fact_responses_sc = <<>>
    /\ fact_responses_mc = <<>>
    /\ call = NoCall
    /\ result = NoResult

(* StackOverflowAnalyzer.__init__: open the session, load the raw tables, *)
(* build the schema.                                                      *)
Construct ==
    /\ phase = "unbuilt"
    /\ conn' = "open"
    /\ LET dq == MakeDimQuestions(so_schema)
       IN  /\ dim_questions' = dq
           /\ IF DimRespondentsFails(dq)
              THEN /\ phase' = "failed"
                   /\ UNCHANGED <<dim_respondents, fact_responses_sc, fact_responses_mc>>
              ELSE /\ phase' = "built"
                   /\ dim_respondents' = MakeDimRespondents(dq, so_data)
                   /\ fact_responses_sc' = MakeFactSc(dq, so_data)
                   /\ fact_responses_mc' = MakeFactMc(dq, so_data)
    /\ UNCHANGED <<so_schema, so_data, call, result>>

(* The tables of the session: the two raw ones of _load_raw_data, then   *)
(* those _create_star_schema got to create.                              *)
Tables ==
    IF phase = "unbuilt" THEN {}
    ELSE IF phase \in {"failed", "aborted"} THEN {"so_schema", "so_data", "dim_questions"}
    ELSE {"so_schema", "so_data", "dim_questions", "dim_respondents",
          "fact_responses_sc", "fact_responses_mc"}

----------------------------------------------------------------------------
(* Query helpers *)

Ok(rows) == [status |-> "ok", rows |-> rows]

Raised == [status |-> "raised", rows |-> <<>>]

Min(S) == CHOOSE x \in S : \A y \in S : x <= y

(* QueryInfo without the WHERE clause: the first row whatever the column. *)
QueryInfo_NoWhere(column) ==
    IF dim_questions = <<>> THEN <<>> ELSE <<dim_questions[1]>>

(* fact_responses_sc after conn.execute(query_info): the column text is  *)
(* put between quotes as it is, and execute runs every statement of the  *)
(* text, so a column that closes the literal and goes on with a DELETE   *)
(* empties the table before the lookup's result is read.                 *)
ScAfterLookup(column) ==
    IF column = Stacked THEN <<>> ELSE fact_responses_sc

(* query_info ... fetchone(): the first dim_questions row of that column, *)
(* as <<row>>, or <<>> when there is none.                                *)
QueryInfo(column) ==
    LET hits == {i \in 1..Len(dim_questions) : dim_questions[i].column_name = column}
    IN  IF hits = {} THEN <<>> ELSE <<dim_questions[Min(hits)]>>

(* SELECT response, COUNT( * ), COUNT( * ) * 100.0 / den ... GROUP BY        *)
(* response: one row per distinct response of `rows`. The percentage is   *)
(* kept as the fraction num/den; den = 0 is a division by zero.           *)
GroupByResponse(rows, den) ==
    { [option |-> v,
       count |-> Cardinality({i \in 1..Len(rows) : rows[i].response = v}),
       percentage |-> [num |-> 100 * Cardinality({i \in 1..Len(rows) : rows[i].response = v}),
                       den |-> den]] :
         v \in {rows[i].response : i \in 1..Len(rows)} }

(* OrderByCountDesc with the order reversed: ORDER BY count. *)
OrderByCountDesc_Asc(S) == OrderedBy(S, [r \in S |-> r.count])

(* ORDER BY count DESC *)
OrderByCountDesc(S) == OrderedBy(S, [r \in S |-> 0 - r.count])

(* ScAnswered without the response != 'NA' filter. *)
ScAnswered_CountsNA(qid) ==
    LET Keep(r) == r.question_id = qid
    IN  SelectSeq(fact_responses_sc, Keep)

ScAnswered(qid) ==
    LET Keep(r) == r.question_id = qid /\ r.response # NA
    IN  SelectSeq(fact_responses_sc, Keep)

ScWithOption(qid, opt) ==
    LET Keep(r) == r.question_id = qid /\ r.response = opt
    IN  SelectSeq(fact_responses_sc, Keep)

McOfQuestion(qid) ==
    LET Keep(r) == r.question_id = qid
    IN  SelectSeq(fact_responses_mc, Keep)

filtered_respondents(qid, opt) ==
    {fact_responses_mc[i].respondent_id : i \in {j \in 1..Len(fact_responses_mc) :
        /\ fact_responses_mc[j].question_id = qid
        /\ fact_responses_mc[j].response = opt}}

McOfFiltered(qid, opt) ==
    LET Keep(r) == r.question_id = qid /\ r.respondent_id \in filtered_respondents(qid, opt)
    IN  SelectSeq(fact_responses_mc, Keep)

ScDistribution(qid) ==
    OrderByCountDesc(GroupByResponse(ScAnswered(qid), Len(ScAnswered(qid))))

(* McDistribution dividing by the number of respondents instead. *)
McDistribution_ByRespondents(qid) ==
    OrderByCountDesc(GroupByResponse(McOfQuestion(qid),
        Cardinality({McOfQuestion(qid)[i].respondent_id : i \in 1..Len(McOfQuestion(qid))})))

McDistribution(qid) ==
    OrderByCountDesc(GroupByResponse(McOfQuestion(qid), Len(McOfQuestion(qid))))

(* AnswerDistribution without the final else: the query is never built. *)
AnswerDistribution_NoElse(column) ==
    IF ~QuotesBalanced(column) THEN {Raised}
    ELSE LET info == QueryInfo(Unescape(column))
         IN  IF info = <<>> THEN {Ok(<<>>)}
             ELSE IF info[1].type = "SC"
                  THEN {Ok(rows) : rows \in ScDistribution(info[1].question_id)}
             ELSE IF info[1].type = "MC"
                  THEN {Ok(rows) : rows \in McDistribution(info[1].question_id)}
             ELSE {Raised}

(* The results get_answer_distribution(column) can return. *)
AnswerDistribution(column) ==
    IF ~QuotesBalanced(column) THEN {Raised}
    ELSE LET info == QueryInfo(Unescape(column))
         IN  IF info = <<>> THEN {Ok(<<>>)}
             ELSE IF info[1].type = "SC"
                  THEN {Ok(rows) : rows \in ScDistribution(info[1].question_id)}
             ELSE IF info[1].type = "MC"
                  THEN {Ok(rows) : rows \in McDistribution(info[1].question_id)}
             ELSE {Ok(<<>>)}

(* RespondentSubset testing `option is not None`: the empty option is a  *)
(* filter like any other.                                                *)
RespondentSubset_EmptyFilters(column, option) ==
    IF ~QuotesBalanced(column) THEN {Raised}
    ELSE LET info == QueryInfo(Unescape(column))
         IN  IF info = <<>> THEN {Ok(<<>>)}
             ELSE LET qid == info[1].question_id
                  IN  IF info[1].type = "SC"
                      THEN IF TRUE
                           THEN IF ~QuotesBalanced(option) THEN {Raised}
                                ELSE {Ok(rows) : rows \in OrderByCountDesc(
                                        GroupByResponse(ScWithOption(qid, Unescape(option)),
                                                        Len(ScAnswered(qid))))}
                           ELSE {Ok(rows) : rows \in ScDistribution(qid)}
                      ELSE IF info[1].type = "MC"
                      THEN IF TRUE
                           THEN IF ~QuotesBalanced(option) THEN {Raised}
                                ELSE {Ok(rows) : rows \in OrderByCountDesc(
                                        GroupByResponse(McOfFiltered(qid, Unescape(option)),
                                                        Len(McOfFiltered(qid, Unescape(option)))))}
                           ELSE {Ok(rows) : rows \in McDistribution(qid)}
                      ELSE {Ok(<<>>)}

(* The results create_respondent_subset(column, option) can return. *)
RespondentSubset(column, option) ==
    IF ~QuotesBalanced(column) THEN {Raised}
    ELSE LET info == QueryInfo(Unescape(column))
         IN  IF info = <<>> THEN {Ok(<<>>)}
             ELSE LET qid == info[1].question_id
                  IN  IF info[1].type = "SC"
                      THEN IF option # <<>>
                           THEN IF ~QuotesBalanced(option) THEN {Raised}
                                ELSE {Ok(rows) : rows \in OrderByCountDesc(
                                        GroupByResponse(ScWithOption(qid, Unescape(option)),
                                                        Len(ScAnswered(qid))))}
                           ELSE {Ok(rows) : rows \in ScDistribution(qid)}
                      ELSE IF info[1].type = "MC"
                      THEN IF option # <<>>
                           THEN IF ~QuotesBalanced(option) THEN {Raised}
                                ELSE {Ok(rows) : rows \in OrderByCountDesc(
                                        GroupByResponse(McOfFiltered(qid, Unescape(option)),
                                                        Len(McOfFiltered(qid, Unescape(option)))))}
                           ELSE {Ok(rows) : rows \in McDistribution(qid)}
                      ELSE {Ok(<<>>)}

SearchRow(q, mt) ==
    [column |-> q.column_name, question_text |-> q.question_text,
     type |-> q.type, match_type |-> mt]

AnswerMatches(fact, q, pat) ==
    \E i \in 1..Len(fact) :
        fact[i].question_id = q.question_id /\ ILike(fact[i].response, pat)

(* The three SELECTs of search_questions, combined by UNION. *)
SearchRows(pat) ==
    LET qs == Range(dim_questions)
    IN  {SearchRow(q, "question") :
            q \in {x \in qs : ILike(x.question_text, pat) \/ ILike(x.column_name, pat)}}
        \cup {SearchRow(q, "answer") :
                q \in {x \in qs : AnswerMatches(fact_responses_sc, x, pat)}}
        \cup {SearchRow(q, "answer") :
                q \in {x \in qs : AnswerMatches(fact_responses_mc, x, pat)}}

(* ORDER BY "column" *)
OrderByColumn(S) ==
    OrderedBy(S, [r \in S |-> Cardinality({y \in S : StrLess(y.column, r.column)})])

(* The results search_questions(search_term) can return. *)
SearchQuestions(search_term) ==
    IF ~QuotesBalanced(search_term) THEN {Raised}
    ELSE {Ok(rows) : rows \in
            OrderByColumn(SearchRows(<<"%">> \o Unescape(search_term) \o <<"%">>))}

StructureRow(q) ==
    [column |-> q.column_name, question_text |-> q.question_text, type |-> q.type]

TypeText(ty) ==
    IF ty = "SC" THEN <<"S","C">> ELSE IF ty = "MC" THEN <<"M","C">> ELSE <<"T","E">>

(* The text a structure row is sorted by under ORDER BY "<sort_by>". *)
SortText(q, sort_by) ==
    IF sort_by \in {"column", "column_name"} THEN q.column_name
    ELSE IF sort_by = "question_text" THEN q.question_text
    ELSE TypeText(q.type)

(* The results get_survey_structure(sort_by) can return; sort_by = "" is *)
(* the default None.                                                     *)
SurveyStructure(sort_by) ==
    LET qs == Range(dim_questions)
    IN  IF sort_by = ""
        THEN {Ok([i \in 1..Len(dim_questions) |-> StructureRow(dim_questions[i])])}
        ELSE IF sort_by = "question_id"
        THEN {Ok([i \in 1..Len(dim_questions) |-> StructureRow(dim_questions[i])])}
        ELSE IF sort_by \in {"column", "column_name", "question_text", "type"}
        THEN {Ok([i \in 1..Len(o) |-> StructureRow(o[i])]) : o \in
                OrderedBy(qs, [q \in qs |-> Cardinality({y \in qs :
                    StrLess(SortText(y, sort_by), SortText(q, sort_by))})])}
        ELSE {Raised}

----------------------------------------------------------------------------
(* Arguments of the calls *)

Columns == {RemoteWork, Lang, Why, OrgSize, Unknown, Malformed, Stacked}

Options == {<<>>, Remote, <<"r","e","m","o","t","e">>, <<"R","e","m">>, NA, Go, <<"'">>}

SearchTerms == {<<>>, <<"r","e","m","o","t","e">>, <<"n","a">>, <<"g","o">>,
                <<"z","z">>, <<"'">>, <<"%">>, <<"r","_","m">>}

SortBys == {"", "type", "bogus"}

Call(op, column, option, search_term, sort_by) ==
    [op |-> op, column |-> column, option |-> option, search_term |-> search_term,
     sort_by |-> sort_by]

get_survey_structure ==
    /\ phase = "built"
    /\ call = NoCall
    /\ \E sort_by \in SortBys :
          /\ call' = Call("get_survey_structure", <<>>, <<>>, <<>>, sort_by)
          /\ result' \in SurveyStructure(sort_by)
    /\ UNCHANGED <<so_schema, so_data, phase, conn, dim_questions, dim_respondents,
                   fact_responses_sc, fact_responses_mc>>

search_questions ==
    /\ phase = "built"
    /\ call = NoCall
    /\ \E search_term \in SearchTerms :
          /\ call' = Call("search_questions", <<>>, <<>>, search_term, "")
          /\ result' \in SearchQuestions(search_term)
    /\ UNCHANGED <<so_schema, so_data, phase, conn, dim_questions, dim_respondents,
                   fact_responses_sc, fact_responses_mc>>

create_respondent_subset ==
    /\ phase = "built"
    /\ call = NoCall
    /\ \E column \in Columns, option \in Options :
          /\ call' = Call("create_respondent_subset", column, option, <<>>, "")
          /\ result' \in RespondentSubset(column, option)
          /\ fact_responses_sc' = ScAfterLookup(column)
    /\ UNCHANGED <<so_schema, so_data, phase, conn, dim_questions, dim_respondents,
                   fact_responses_mc>>

get_answer_distribution ==
    /\ phase = "built"
    /\ call = NoCall
    /\ \E column \in Columns :
          /\ call' = Call("get_answer_distribution", column, <<>>, <<>>, "")
          /\ result' \in AnswerDistribution(column)
          /\ fact_responses_sc' = ScAfterLookup(column)
    /\ UNCHANGED <<so_schema, so_data, phase, conn, dim_questions, dim_respondents,
                   fact_responses_mc>>

(* The caller is done with the returned table and is back at its menu. *)
Return ==
    /\ phase = "built"
    /\ call # NoCall
    /\ call' = NoCall
    /\ result' = NoResult
    /\ UNCHANGED <<so_schema, so_data, phase, conn, dim_questions, dim_respondents,
                   fact_responses_sc, fact_responses_mc>>

(* The end of main: the loop is left by the exit choice or by a query    *)
(* that raised, or construction raised; the finally clause then calls    *)
(* analyzer.close() if analyzer was bound. StackOverflowAnalyzer has no  *)
(* close method, so that call raises AttributeError and the session      *)
(* stays as it was.                                                      *)
Teardown ==
    /\ \/ /\ phase = "built"
          /\ call = NoCall \/ result.status = "raised"
          /\ phase' = "exited"
       \/ /\ phase = "failed"
          /\ phase' = "aborted"
    /\ UNCHANGED <<so_schema, so_data, conn, dim_questions, dim_respondents,
                   fact_responses_sc, fact_responses_mc, call, result>>

Next ==
    \/ Construct
    \/ get_survey_structure
    \/ search_questions
    \/ create_respondent_subset
    \/ get_answer_distribution
    \/ Return
    \/ Teardown

Spec == Init /\ [][Next]_vars

----------------------------------------------------------------------------
(* What the raw tables say, read without the star schema *)

Questions(ty) == {q \in Range(dim_questions) : q.type = ty}

InData(q) == q.column_name \in data_columns

(* A raw cell that holds an answer: not NULL, not empty, not "NA". *)
IsAnswer(cell) == cell # NULL /\ cell[1] # <<>> /\ cell[1] # NA

RawAnswering(q) == {i \in 1..Len(so_data) : IsAnswer(so_data[i][q.column_name])}

FactRows(fact, qid) == {i \in 1..Len(fact) : fact[i].question_id = qid}

RECURSIVE Trim(_)
Trim(s) ==
    IF s = <<>> THEN <<>>
    ELSE IF Head(s) = " " THEN Trim(Tail(s))
    ELSE IF s[Len(s)] = " " THEN Trim(SubSeq(s, 1, Len(s) - 1))
    ELSE s

IsPiece(p) == p # <<>> /\ p # NA

(* The selections of an MC cell: split on ';', trimmed, no empty or NA piece. *)
Pieces(cell) ==
    IF cell = NULL THEN <<>>
    ELSE LET parts == string_split(cell[1])
         IN  SelectSeq([k \in 1..Len(parts) |-> Trim(parts[k])], IsPiece)

(* The responses stored for one respondent and question, in stored order. *)
StoredFor(fact, rid, qid) ==
    LET Keep(r) == r.respondent_id = rid /\ r.question_id = qid
        kept == SelectSeq(fact, Keep)
    IN  [k \in 1..Len(kept) |-> kept[k].response]

----------------------------------------------------------------------------
(* C1: row-count conservation. After construction, for every SC question *)
(* whose column is in the raw table, the number of fact rows stored for  *)
(* it equals the number of raw rows whose value is an answer (non-null,  *)
(* non-empty, not "NA").                                                 *)
C1_RowCountConservation ==
    phase = "built" =>
        \A q \in Questions("SC") : InData(q) =>
            Cardinality(FactRows(fact_responses_sc, q.question_id))
                = Cardinality(RawAnswering(q))

(* C2: MC expansion. For every MC question with a data column and every  *)
(* respondent, the fact rows of that respondent and question are exactly *)
(* the pieces of the raw value: split on ';', trimmed, empty and "NA"    *)
(* pieces dropped, one row per surviving piece.                          *)
C2_McExpansion ==
    phase = "built" =>
        \A q \in Questions("MC") : InData(q) =>
            \A i \in 1..Len(dim_respondents) :
                StoredFor(fact_responses_mc, dim_respondents[i].respondent_id, q.question_id)
                    = Pieces(so_data[i][q.column_name])

(* C3: fact attribution. Every fact row's respondent_id is the id that   *)
(* dim_respondents gives the raw row whose cell produced the answer: the *)
(* cell's value for SC (an unanswered cell being stored as "NA"), one of *)
(* the cell's ';'-pieces for MC.                                         *)
C3_FactAttribution ==
    phase = "built" =>
        /\ \A k \in 1..Len(fact_responses_sc) :
              \E i \in 1..Len(dim_respondents), q \in Questions("SC") :
                  /\ dim_respondents[i].respondent_id = fact_responses_sc[k].respondent_id
                  /\ q.question_id = fact_responses_sc[k].question_id
                  /\ LET cell == so_data[i][q.column_name]
                     IN  IF cell = NULL \/ cell = Val(<<>>)
                         THEN fact_responses_sc[k].response = NA
                         ELSE fact_responses_sc[k].response = cell[1]
        /\ \A k \in 1..Len(fact_responses_mc) :
              \E i \in 1..Len(dim_respondents), q \in Questions("MC") :
                  /\ dim_respondents[i].respondent_id = fact_responses_mc[k].respondent_id
                  /\ q.question_id = fact_responses_mc[k].question_id
                  /\ LET cell == so_data[i][q.column_name]
                     IN  /\ cell # NULL
                         /\ fact_responses_mc[k].response \in Range(string_split(cell[1]))

----------------------------------------------------------------------------
(* Reading a returned distribution *)

RECURSIVE SumCount(_)
SumCount(rows) == IF rows = <<>> THEN 0 ELSE Head(rows).count + SumCount(Tail(rows))

RECURSIVE SumNum(_)
SumNum(rows) ==
    IF rows = <<>> THEN 0 ELSE Head(rows).percentage.num + SumNum(Tail(rows))

OptionsOf(rows) == {rows[k].option : k \in 1..Len(rows)}

(* The question a distribution call is about, when the column is known. *)
AskedDistribution(ty) ==
    /\ call.op = "get_answer_distribution"
    /\ QueryInfo(call.column) # <<>>
    /\ QueryInfo(call.column)[1].type = ty

Asked == QueryInfo(call.column)[1]

(* The fact rows of an SC question that hold an answer. *)
ScAnswering(q) ==
    {i \in FactRows(fact_responses_sc, q.question_id) : fact_responses_sc[i].response # NA}

(* C4: distribution normalization for SC. For an SC question with at     *)
(* least one answering respondent, get_answer_distribution returns one   *)
(* row per distinct answer, with percentage count*100 / (number of       *)
(* answering respondents); the percentages sum to 100 within 1 and the   *)
(* counts sum to the number of answering respondents.                    *)
C4_ScDistributionNormalized ==
    (AskedDistribution("SC") /\ ScAnswering(Asked) # {}) =>
        LET n == Cardinality({fact_responses_sc[i].respondent_id : i \in ScAnswering(Asked)})
            rows == result.rows
        IN  /\ result.status = "ok"
            /\ OptionsOf(rows) = {fact_responses_sc[i].response : i \in ScAnswering(Asked)}
            /\ Len(rows) = Cardinality(OptionsOf(rows))
            /\ \A k \in 1..Len(rows) :
                  /\ rows[k].count =
                        Cardinality({fact_responses_sc[i].respondent_id :
                                        i \in {j \in ScAnswering(Asked) :
                                            fact_responses_sc[j].response = rows[k].option}})
                  /\ rows[k].percentage = [num |-> 100 * rows[k].count, den |-> n]
            /\ SumCount(rows) = n
            /\ 99 * n <= SumNum(rows)
            /\ SumNum(rows) <= 101 * n

(* An SC distribution over answered and unanswered respondents, with two *)
(* distinct answers returned.                                            *)
C4_Witness ==
    /\ AskedDistribution("SC")
    /\ InData(Asked)
    /\ Cardinality(RawAnswering(Asked)) < Len(so_data)
    /\ result.status = "ok"
    /\ Len(result.rows) = 2

(* C5: distribution base for MC. For an MC question every returned row's *)
(* percentage is its count*100 over the number of fact rows (selection   *)
(* events) of the question, not over the number of respondents.          *)
C5_McDistributionBase ==
    AskedDistribution("MC") =>
        LET facts == FactRows(fact_responses_mc, Asked.question_id)
            rows == result.rows
        IN  /\ result.status = "ok"
            /\ OptionsOf(rows) = {fact_responses_mc[i].response : i \in facts}
            /\ \A k \in 1..Len(rows) :
                  /\ rows[k].count =
                        Cardinality({i \in facts :
                                        fact_responses_mc[i].response = rows[k].option})
                  /\ rows[k].percentage =
                        [num |-> 100 * rows[k].count, den |-> Cardinality(facts)]

(* An MC distribution whose selection events outnumber the respondents   *)
(* who made them.                                                        *)
C5_Witness ==
    /\ AskedDistribution("MC")
    /\ result.status = "ok"
    /\ result.rows # <<>>
    /\ Cardinality(FactRows(fact_responses_mc, Asked.question_id))
          > Cardinality({fact_responses_mc[i].respondent_id :
                            i \in FactRows(fact_responses_mc, Asked.question_id)})

RECURSIVE SumPieces(_, _)
SumPieces(col, i) ==
    IF i = 0 THEN 0 ELSE Len(Pieces(so_data[i][col])) + SumPieces(col, i - 1)

(* C6: no-answer values are excluded for SC and MC alike. No row that    *)
(* get_answer_distribution returns for an SC or MC question has a null,  *)
(* empty or "NA" answer, and no such value is counted in a denominator.  *)
C6_NoAnswerExcluded ==
    ((AskedDistribution("SC") \/ AskedDistribution("MC")) /\ InData(Asked)) =>
        /\ result.status = "ok"
        /\ \A k \in 1..Len(result.rows) :
              /\ result.rows[k].option \notin {<<>>, NA}
              /\ result.rows[k].percentage.den =
                    IF Asked.type = "SC"
                    THEN Cardinality(RawAnswering(Asked))
                    ELSE SumPieces(Asked.column_name, Len(so_data))

----------------------------------------------------------------------------
(* Reading a returned subset *)

AskedSubset ==
    /\ call.op = "create_respondent_subset"
    /\ QueryInfo(call.column) # <<>>

FactOf(ty) == IF ty = "SC" THEN fact_responses_sc ELSE fact_responses_mc

(* The respondents with a fact row of question q whose answer is opt. *)
Matching(q, opt) ==
    IF q.type \in {"SC", "MC"}
    THEN {FactOf(q.type)[i].respondent_id : i \in {j \in 1..Len(FactOf(q.type)) :
            /\ FactOf(q.type)[j].question_id = q.question_id
            /\ FactOf(q.type)[j].response = opt}}
    ELSE {}

(* The dim_respondents rows of the respondents in ids, ascending by id. *)
RespondentRows(ids) ==
    LET Keep(r) == r.respondent_id \in ids
    IN  SelectSeq(dim_respondents, Keep)

(* C7: respondent subset. For a known question column and an answer     *)
(* value the subset operation returns exactly the respondents that have  *)
(* a fact row for the question with that answer, each once, ascending by *)
(* respondent_id, with their demographic attributes.                     *)
C7_RespondentSubset ==
    (AskedSubset /\ IsPiece(call.option) /\ result.status = "ok") =>
        /\ Len(result.rows) = Cardinality(Matching(Asked, call.option))
        /\ \A k \in 1..Len(result.rows) :
              /\ DOMAIN result.rows[k] = {"respondent_id", "demographics"}
              /\ result.rows[k] = RespondentRows(Matching(Asked, call.option))[k]

(* C8: subset exactness. The answer value is matched by exact,           *)
(* case-sensitive equality: when no fact row of the question has exactly *)
(* the given (non-empty) value, the result is the empty table.           *)
C8_SubsetExactness ==
    (AskedSubset /\ call.option # <<>> /\ Matching(Asked, call.option) = {}) =>
        /\ result.status = "ok"
        /\ result.rows = <<>>

----------------------------------------------------------------------------
(* Reading a returned search *)

(* The answers realized for a question in the raw table. *)
Realized(q) ==
    IF ~InData(q) THEN {}
    ELSE IF q.type = "SC"
         THEN {so_data[i][q.column_name][1] : i \in RawAnswering(q)}
    ELSE IF q.type = "MC"
         THEN UNION {Range(Pieces(so_data[i][q.column_name])) : i \in 1..Len(so_data)}
    ELSE {}

Contains(s, t) == IsSubstring(Lower(t), Lower(s))

TermMatches(q, t) ==
    \/ Contains(q.question_text, t)
    \/ Contains(q.column_name, t)
    \/ \E a \in Realized(q) : Contains(a, t)

Returned(q) == \E k \in 1..Len(result.rows) : result.rows[k].column = q.column_name

PlainTerm(t) == Range(t) \cap {"'", "%", "_"} = {}

(* C9: search matching. search_questions(term) returns a question if and *)
(* only if term is a case-insensitive substring of its question_text, of *)
(* its column_name or of an answer realized for it (the non-null,        *)
(* non-empty, non-"NA" answers); stated here for terms of ordinary       *)
(* characters.                                                           *)
C9_SearchMatching ==
    (call.op = "search_questions" /\ PlainTerm(call.search_term)) =>
        /\ result.status = "ok"
        /\ \A q \in Range(dim_questions) :
              Returned(q) <=> TermMatches(q, call.search_term)

(* C10: search completeness. search_questions raises for no term, the    *)
(* empty one and ones holding a single quote or '%' included, and a term *)
(* that matches no text, column or answer returns the empty table.       *)
C10_SearchNeverRaises ==
    call.op = "search_questions" =>
        /\ result.status = "ok"
        /\ (\A q \in Range(dim_questions) : ~TermMatches(q, call.search_term))
              => result.rows = <<>>

----------------------------------------------------------------------------
(* Reading a returned structure *)

(* The distinct answer values in the fact rows of question q. *)
DistinctAnswers(q) ==
    {fact_responses_sc[i].response : i \in FactRows(fact_responses_sc, q.question_id)}
    \cup {fact_responses_mc[i].response : i \in FactRows(fact_responses_mc, q.question_id)}

(* C11: survey structure. get_survey_structure with no sort argument     *)
(* returns one row per dim_questions row, in ascending question_id       *)
(* order, each carrying num_answer_options, the number of distinct       *)
(* answer values in the fact rows of the question.                       *)
C11_SurveyStructure ==
    (call.op = "get_survey_structure" /\ call.sort_by = "") =>
        /\ result.status = "ok"
        /\ Len(result.rows) = Len(dim_questions)
        /\ \A k \in 1..Len(result.rows) :
              /\ result.rows[k].column = dim_questions[k].column_name
              /\ \A j \in 1..Len(result.rows) :
                    j < k => dim_questions[j].question_id < dim_questions[k].question_id
              /\ "num_answer_options" \in DOMAIN result.rows[k]
              /\ result.rows[k].num_answer_options
                    = Cardinality(DistinctAnswers(dim_questions[k]))

----------------------------------------------------------------------------
(* Calls that name no question *)

AskedByColumn == call.op \in {"get_answer_distribution", "create_respondent_subset"}

UnknownColumn == \A q \in Range(dim_questions) : q.column_name # call.column

----------------------------------------------------------------------------
(* Question types outside SC and MC *)

Supported(row) == row.type \in {"SC", "MC"}

AsksUnsupported ==
    /\ AskedByColumn
    /\ \E q \in Range(dim_questions) :
          q.column_name = call.column /\ q.type \notin {"SC", "MC"}

(* C13: unsupported question type. A schema row whose type is neither SC  *)
(* nor MC keeps its dim_questions row with the type as given, it is never *)
(* the reason a construction fails (the schema without such rows fails    *)
(* too), and the distribution and the subset of such a question are the   *)
(* empty table, returned without an exception.                            *)
C13_UnsupportedType ==
    /\ phase # "unbuilt" =>
          /\ Len(dim_questions) = Len(so_schema)
          /\ \A i \in 1..Len(so_schema) :
                ~Supported(so_schema[i]) =>
                    /\ dim_questions[i].column_name = so_schema[i].column
                    /\ dim_questions[i].type = so_schema[i].type
    /\ phase \in {"failed", "aborted"} =>
          DimRespondentsFails(MakeDimQuestions(SelectSeq(so_schema, Supported)))
    /\ AsksUnsupported => result = Ok(<<>>)

(* A text question asked for its distribution over a non-empty table. *)
C13_Witness ==
    /\ call.op = "get_answer_distribution"
    /\ AsksUnsupported
    /\ so_data # <<>>
    /\ result = Ok(<<>>)

----------------------------------------------------------------------------
(* The respondent dimension *)

(* C14: respondent dimension. After construction dim_respondents has one *)
(* row per raw respondent row, equal raw rows included, the demographics *)
(* of row i are those of raw row i, and the respondent_id values are     *)
(* pairwise distinct.                                                    *)
C14_RespondentDimension ==
    phase = "built" =>
        /\ Len(dim_respondents) = Len(so_data)
        /\ \A i \in 1..Len(dim_respondents) :
              \A c \in DOMAIN dim_respondents[i].demographics :
                  dim_respondents[i].demographics[c] = so_data[i][c]
        /\ \A i, j \in 1..Len(dim_respondents) :
              i # j => dim_respondents[i].respondent_id # dim_respondents[j].respondent_id

(* Two equal raw rows, both kept. *)
C14_Witness ==
    /\ phase = "built"
    /\ \E i, j \in 1..Len(so_data) : i # j /\ so_data[i] = so_data[j]
    /\ Len(dim_respondents) = Len(so_data)
    /\ Len(dim_respondents) >= 2

----------------------------------------------------------------------------
(* Question keys *)

(* C15: question keys. dim_questions has one row per schema row, no two  *)
(* rows share a column_name, and question_id follows the ascending order *)
(* of column_name, so the id of a column does not depend on where its    *)
(* row stands in the schema source.                                      *)
C15_QuestionKeys ==
    phase # "unbuilt" =>
        /\ Len(dim_questions) = Len(so_schema)
        /\ \A i, j \in 1..Len(dim_questions) :
              i # j => dim_questions[i].column_name # dim_questions[j].column_name
        /\ \A i, j \in 1..Len(dim_questions) :
              StrLess(dim_questions[i].column_name, dim_questions[j].column_name)
                  => dim_questions[i].question_id < dim_questions[j].question_id

----------------------------------------------------------------------------
(* The answer-option dimension *)

(* C16: answer-option dimension. After construction there is a table     *)
(* dim_answer_options with one row for each (question_id, answer_value)  *)
(* pair of the fact rows and no others, and every fact row carries the   *)
(* answer_option_id of its pair.                                         *)
C16_AnswerOptionDimension ==
    phase = "built" =>
        /\ "dim_answer_options" \in Tables
        /\ \A i \in 1..Len(fact_responses_sc) :
              "answer_option_id" \in DOMAIN fact_responses_sc[i]
        /\ \A i \in 1..Len(fact_responses_mc) :
              "answer_option_id" \in DOMAIN fact_responses_mc[i]

----------------------------------------------------------------------------
(* Schema questions without a raw column *)

Missing(q) == q.type \in {"SC", "MC"} /\ q.column_name \notin data_columns

(* C17: missing column policy. An SC or MC question of the schema whose  *)
(* column_name is no column of the raw respondent table does not make    *)
(* construction fail, has its dim_questions row and no fact rows, and    *)
(* its distribution is empty.                                            *)
C17_MissingColumnSkipped ==
    /\ phase # "unbuilt" =>
          \A i \in 1..Len(so_schema) :
              Missing(MakeDimQuestions(so_schema)[i]) =>
                  /\ phase \notin {"failed", "aborted"}
                  /\ i \in DOMAIN dim_questions
                  /\ dim_questions[i].column_name = so_schema[i].column
                  /\ FactRows(fact_responses_sc, dim_questions[i].question_id) = {}
                  /\ FactRows(fact_responses_mc, dim_questions[i].question_id) = {}
    /\ (call.op = "get_answer_distribution"
           /\ \E q \in Range(dim_questions) : q.column_name = call.column /\ Missing(q))
          => result = Ok(<<>>)

----------------------------------------------------------------------------
(* Effects of the queries *)

(* C18: read-only queries. After construction no step, whatever the      *)
(* operation called and its arguments, changes a raw table or a table of *)
(* the star schema.                                                      *)
C18_ReadOnlyQueries ==
    [][phase = "built" =>
          UNCHANGED <<so_schema, so_data, dim_questions, dim_respondents,
                      fact_responses_sc, fact_responses_mc>>]_vars

----------------------------------------------------------------------------
(* The session *)

(* C19: session lifecycle. The session opened at construction is closed  *)
(* once main has left its loop, whether by the exit choice or by a query *)
(* that raised; it is not closed when construction failed; and no call   *)
(* is in progress on a closed session.                                   *)
C19_SessionLifecycle ==
    /\ phase = "exited" => conn = "closed"
    /\ phase = "aborted" => conn # "closed"
    /\ conn = "closed" => phase \in {"exited", "aborted"}

----------------------------------------------------------------------------
(* Order of a returned distribution *)

(* C20: distribution ordering. The rows get_answer_distribution returns  *)
(* for an SC or MC question are in non-increasing order of count, no two *)
(* rows hold the same answer, and every answer the question's counted    *)
(* fact rows hold has its row.                                           *)
C20_DistributionOrdering ==
    (AskedDistribution("SC") \/ AskedDistribution("MC")) =>
        LET rows == result.rows
            held == IF Asked.type = "SC"
                    THEN {fact_responses_sc[i].response : i \in ScAnswering(Asked)}
                    ELSE {fact_responses_mc[i].response :
                             i \in FactRows(fact_responses_mc, Asked.question_id)}
        IN  /\ result.status = "ok"
            /\ \A j, k \in 1..Len(rows) : j < k => rows[j].count >= rows[k].count
            /\ \A j, k \in 1..Len(rows) : j # k => rows[j].option # rows[k].option
            /\ OptionsOf(rows) = held

(* A distribution of three rows, not all of one count. *)
C20_Witness ==
    /\ AskedDistribution("MC")
    /\ result.status = "ok"
    /\ Len(result.rows) >= 3
    /\ result.rows[1].count > result.rows[Len(result.rows)].count

----------------------------------------------------------------------------
(* The subset operation against the distribution operation *)

(* A returned table read as a set of rows, with the call's outcome. *)
Outcome(r) == [status |-> r.status, rows |-> Range(r.rows)]

(* C21: for every column, known or not and of any type,                  *)
(* create_respondent_subset with an empty option gives what              *)
(* get_answer_distribution gives for that column over the same tables:   *)
(* the same set of (option, count, percentage) rows, or both raise.      *)
C21_EmptyOptionIsDistribution ==
    /\ (call.op = "create_respondent_subset" /\ call.option = <<>>) =>
          Outcome(result) \in {Outcome(r) : r \in AnswerDistribution(call.column)}
    /\ call.op = "get_answer_distribution" =>
          Outcome(result) \in {Outcome(r) : r \in RespondentSubset(call.column, <<>>)}

(* The subset of an SC question asked with the empty option, two rows. *)
C21_Witness ==
    /\ call.op = "create_respondent_subset"
    /\ call.option = <<>>
    /\ QueryInfo(call.column) # <<>>
    /\ Asked.type = "SC"
    /\ result.status = "ok"
    /\ Len(result.rows) = 2

(* C22: for an SC question and any option, "NA" included,                *)
(* create_respondent_subset returns at most one row, whose percentage is *)
(* a defined number from 0 to 100: the share of the answering            *)
(* respondents who gave the option.                                      *)
C22_ScSubsetShare ==
    (/\ call.op = "create_respondent_subset"
     /\ QueryInfo(call.column) # <<>>
     /\ Asked.type = "SC"
     /\ call.option # <<>>
     /\ "'" \notin Range(call.option)) =>
        /\ result.status = "ok"
        /\ Len(result.rows) <= 1
        /\ \A k \in 1..Len(result.rows) :
              LET pct == result.rows[k].percentage
              IN  /\ pct.den > 0
                  /\ 0 <= pct.num
                  /\ pct.num <= 100 * pct.den
                  /\ pct.den = Cardinality(ScAnswering(Asked))
                  /\ pct.num = 100 * Cardinality({i \in ScAnswering(Asked) :
                                   fact_responses_sc[i].response = call.option})

====
